---- MODULE Spec2Model ----
(***************************************************************************)
(* The rotating, batched file producer (producer.File) of gollum:          *)
(* getFileState / writeMessage / rotateLog / writeBatchOnTimeOut / close,  *)
(* together with the per-file state (batch, writer, flush) it drives.      *)
(*                                                                         *)
(* Tasks: the control task runs writeMessage, rotateLog and close one call *)
(* at a time; the ticker task runs writeBatchOnTimeOut; every rotated      *)
(* writer is closed by a goroutine of its own ("go currentLog.Close()").   *)
(* getFileState is cut where it writes state another task reads: before    *)
(* the open of the new file (state.writer is nil from line 344 to 364).    *)
(*                                                                         *)
(* Spec is the producer. It takes at their defaults FileOverwrite (false), *)
(* Rotation/Compress (false) and the three Prune settings (0, Prune        *)
(* returns at once). The timestamp of Rotation/Timestamp is the same for   *)
(* every rotation.                                                         *)
(*                                                                         *)
(* SpecRotated is the log directory of one destination under rotation      *)
(* after rotation, with the goroutines each rotation starts: Close, which  *)
(* compresses when Rotation/Compress is set, and Prune with Prune/Count.   *)
(***************************************************************************)
EXTENDS Integers, Sequences, FiniteSets, TLC

\* ---------------------------------------------------------------- bounds
MaxMsgs == 3
MaxOpens == 2
MaxFails == 1
MaxRolls == 1
batchMaxCount == 2
MaxRotations == 3
MaxChunks == 1
MaxAtLen == 5
MaxCallers == 3
WordBits == 4
MaxBuf == 2
MaxOffset == 3
MaxFiles == 3

\* ------------------------------------------------------------- constants
WildcardStreamID == "*"
StreamIDs == {WildcardStreamID, "A"}

\* the values of the File setting: without and with the "*" placeholder
LogFiles ==
  { [dir |-> <<"logs">>, name |-> <<"out">>, ext |-> <<".log">>],
    [dir |-> <<"logs">>, name |-> <<"*">>, ext |-> <<".log">>] }

\* the default of Batch/FlushCount: half of the default of Batch/MaxCount,
\* and at least one message
batchFlushCount == IF batchMaxCount > 1 THEN batchMaxCount \div 2 ELSE 1

\* the values of Batch/FlushCount: the default, and one over Batch/MaxCount
FlushCounts == {batchFlushCount, batchMaxCount + 1}

\* the default of FlushTimeoutSec; 0 would never abort the shutdown flush
flushTimeout == 5

\* Rotation/SizeMB in messages: a file of two messages is due for rotation
sizeByte == 2

\* the values of Prune/Count: the default (no pruning) and one file
PruneCounts == {0, 1}

VARIABLES
  cfg,            \* the configuration Configure stored in prod
  prodState,      \* "active", "stopping", "dead" (after WorkerDone)
  crashed,        \* a fatal error ended the process
  filesByStream,  \* prod.filesByStream: stream id -> state (index of states)
  files,          \* prod.files: base path -> state (index of states)
  states,         \* the fileState objects: writer, batch, mutex
  handles,        \* every *os.File opened so far: name, open, cached stats
  disk,           \* names of the files that exist
  links,          \* the symlinks that exist: path -> target name
  closing,        \* handles handed to "go currentLog.Close()"
  fails,          \* injected I/O failures so far
  rolls,          \* rotateLog calls so far
  ing,            \* the control task: position and locals
  tick,           \* the ticker task: position and locals
  msgStream,      \* history: stream id of message m (index)
  appendLog,      \* history: <<m, state>> in the order of batch appends
  flushLog,       \* history: every Write a flush issued, in order
  fallbackLog,    \* history: per message, who called TryFallback with it
  gfsErr,         \* history: messages whose getFileState returned an error
  failedStreams,  \* history: streams whose latest getFileState failed
  creates,        \* history: <<name, m>> for every file an OpenFile created
  dir,            \* the files of the log directory, oldest modification first
  current,        \* the name of the file of the current writer, if any
  closers,        \* the goroutines of "go currentLog.Close()", by rotation
  pruners,        \* the goroutines of "go prod.Pruner.Prune()", by rotation
  heap,           \* the message objects of writeMessage and their payloads
  rotateAt,       \* Configure reading Rotation/At: the value and the outcome
  store,          \* Metric.store and the calls made on it
  sweep,          \* one run of a prune policy over a listed directory
  buf             \* an s3ByteBuffer and the outcome of a Seek on it

vars == << cfg, prodState, crashed, filesByStream, files, states, handles,
           disk, links, closing, fails, rolls, ing, tick, msgStream,
           appendLog, flushLog, fallbackLog, gfsErr, failedStreams,
           creates, dir, current, closers, pruners, heap, rotateAt, store,
           sweep, buf >>

\* the log directory as compression and pruning see it
dirVars == << dir, current, closers, pruners >>

\* the parts that are followed on their own, apart from the producer
partVars == << heap, rotateAt, store, sweep, buf >>

\* the variables of the file system, of the two maps, and the histories
fsVars == << disk, links >>
mapVars == << filesByStream, files >>
histVars == << msgStream, appendLog, flushLog, fallbackLog, gfsErr,
              failedStreams, creates >>

\* ---------------------------------------------------------------- helpers
Range(f) == { f[x] : x \in DOMAIN f }

RECURSIVE Replace(_, _, _)
\* strings.Replace(s, old, new, -1) on a string given as a token sequence
Replace(s, old, new) ==
  IF s = << >> THEN << >>
  ELSE (IF Head(s) = old THEN <<new>> ELSE <<Head(s)>>)
         \o Replace(Tail(s), old, new)

\* strings.IndexByte(logFile, '*') != -1
HasWildcard(logFile) ==
  \E part \in {logFile.dir, logFile.name, logFile.ext} :
     \E i \in 1..Len(part) : part[i] = "*"

\* MinI that answers its first argument
MinIFirst(a, b) == a

\* tmath.MinI
MinI(a, b) == IF a < b THEN a ELSE b

\* core.StreamRegistry.GetStreamName
GetStreamName(streamID) == streamID

\* StreamNameOf that takes every stream for the wildcard stream
StreamNameOfAll(streamID) == "ALL"

\* the stream name getFileState substitutes for "*"
StreamNameOf(streamID) ==
  IF streamID = WildcardStreamID THEN "ALL" ELSE GetStreamName(streamID)

\* fileDir, fileName, fileExt of getFileState
PathParts(streamID) ==
  IF cfg.wildcardPath
  THEN [dir  |-> Replace(cfg.fileDir, "*", StreamNameOf(streamID)),
        name |-> Replace(cfg.fileName, "*", StreamNameOf(streamID)),
        ext  |-> Replace(cfg.fileExt, "*", StreamNameOf(streamID))]
  ELSE [dir |-> cfg.fileDir, name |-> cfg.fileName, ext |-> cfg.fileExt]

\* logFileBasePath := fmt.Sprintf("%s/%s%s", fileDir, fileName, fileExt)
LogFileBasePath(streamID) ==
  LET p == PathParts(streamID) IN p.dir \o <<"/">> \o p.name \o p.ext

\* files, _ := ioutil.ReadDir(fileDir): the entries, none when it failed
ReadDir(ok) == IF ok THEN disk ELSE {}

\* maxSuffix of getFileState: one more than the largest counter among the
\* directory entries that start with the signature
MaxSuffix(base, entries) ==
  LET same == { f \in entries : f.base = base /\ f.stamped } IN
  IF same = {} THEN 0
  ELSE (CHOOSE c \in { f.ctr : f \in same } :
          \A f \in same : f.ctr <= c) + 1

\* logFileName: the base name without rotation, else signature and counter
LogFileName(base, entries) ==
  IF ~cfg.rotate THEN [base |-> base, stamped |-> FALSE, ctr |-> 0]
  ELSE [base |-> base, stamped |-> TRUE, ctr |-> MaxSuffix(base, entries)]

SymLinkName(base) == <<base, "_current">>
SymLinkNameTemporary(base) == <<base, "_current", ".tmp">>

\* newFileState
newFileState == [writer |-> 0, batch |-> << >>, mutex |-> "none"]

IdleIng ==
  [pc |-> "idle", op |-> "none", m |-> 0, s |-> "", d |-> 0, force |-> FALSE,
   todo |-> {}, detached |-> 0, res |-> "none", items |-> << >>, cap |-> 0,
   at |-> "none"]

IdleTick == [pc |-> "idle", d |-> 0, items |-> << >>, cap |-> 0]

\* --------------------------------------------------------- writer, state
RECURSIVE WrittenTo(_, _)
\* the messages the first k Writes have put into the file of that name
WrittenTo(name, k) ==
  IF k = 0 THEN 0
  ELSE WrittenTo(name, k - 1)
       + (IF flushLog[k].ok /\ handles[flushLog[k].h].name = name
          THEN Len(flushLog[k].items) ELSE 0)

\* the size of the file on disk, one message being one unit
FileSize(name) == WrittenTo(name, Len(flushLog))

\* no os.FileInfo (nil)
NoStats == << >>

\* file.Stat(): the os.FileInfo of the moment of the call, or an error
Stat(h, statOk) ==
  IF statOk THEN <<FileSize(handles[h].name)>> ELSE NoStats

\* fileStateWriterDisk.getStats: the cached stats, else file.Stat()
getStats(h, statOk) ==
  IF handles[h].stats # NoStats THEN handles[h].stats ELSE Stat(h, statOk)

\* fileStateWriterDisk.IsAccessible
IsAccessible(h, statOk) == getStats(h, statOk) # NoStats

\* fileStateWriterDisk.Size
Size(h, statOk) ==
  IF getStats(h, statOk) = NoStats THEN 0 ELSE getStats(h, statOk)[1]

\* fileState.needsRotate; policy stands for the timeout and time-of-day
\* triggers
needsRotate(st, forceRotate, statOk, policy) ==
  IF forceRotate THEN TRUE
  ELSE IF ~cfg.rotate THEN FALSE
  ELSE IF st.writer = 0 THEN TRUE
  ELSE IF ~IsAccessible(st.writer, statOk) THEN TRUE
  ELSE IF cfg.sizeByte > 0 /\ Size(st.writer, statOk) >= cfg.sizeByte
       THEN TRUE
  ELSE policy

\* needsRotate reaches file.Stat() of the writer
StatCalled(st, forceRotate) ==
  /\ ~forceRotate /\ cfg.rotate /\ st.writer # 0
  /\ handles[st.writer].stats = NoStats

\* prod.IsActiveOrStopping
IsActiveOrStopping == prodState \in {"active", "stopping"}

\* prod.IsActive
IsActive == prodState = "active"

\* the callers of TryFallback: writeMessage after a getFileState error,
\* AppendOrFlush, or the flush that issued flushLog[k]
ByWriteMessage == <<"writeMessage", 0>>
ByAppendOrFlush == <<"AppendOrFlush", 0>>
ByFlush(k) == <<"flush", k>>

\* prod.TryFallback(msg) for every msg of msgs
TryFallback(log, msgs, by) ==
  [ m \in DOMAIN log |->
      IF \E i \in 1..Len(msgs) : msgs[i] = m THEN Append(log[m], by)
      ELSE log[m] ]

\* -------------------------------------------------------- fileState.flush
\* flushFallback that hands the items over whatever Write returned
flushFallbackAlways(ok, items) == items

\* the items a flush hands to the fallback: all of them when Write failed
flushFallback(ok, items) == IF ok THEN << >> ELSE items

\* mutexFree of a flush that takes no mutex
mutexFreeAlways(d) == TRUE

\* the mutex of the state is free
mutexFree(d) == states[d].mutex = "none"

\* first half: under the mutex, drain the batch
FlushBegin(d, who) ==
  [states EXCEPT ![d].batch = << >>, ![d].mutex = who]

\* second half: Write the drained items to writer w (read from the state
\* without synchronisation with getFileState, so w is the writer at drain
\* time or the current one); a nil writer is fatal, a failed Write hands
\* the items to the fallback
FlushWrite(d, items, w, writeOk) ==
  IF items = << >> THEN
     /\ writeOk
     /\ UNCHANGED << flushLog, fallbackLog, crashed, fails >>
  ELSE IF w = 0 THEN
     /\ writeOk
     /\ crashed' = TRUE
     /\ UNCHANGED << flushLog, fallbackLog, fails >>
  ELSE
     LET ok == writeOk /\ handles[w].open IN
     /\ writeOk \/ (handles[w].open /\ fails < MaxFails)
     /\ fails' = IF writeOk THEN fails ELSE fails + 1
     /\ flushLog' = Append(flushLog,
          [d |-> d, h |-> w, items |-> items, ok |-> ok,
           attached |-> states[d].writer = w])
     /\ fallbackLog' = TryFallback(fallbackLog, flushFallback(ok, items),
                                   ByFlush(Len(flushLog) + 1))
     /\ UNCHANGED crashed

\* the writers a racing flush can end up using
FlushWriters(d, captured) == {captured, states[d].writer}

\* ----------------------------------------------------------- getFileState
\* mapState that forgets to store a created state (line 287 left out)
mapStateDropped(base, d) == files

\* lines 283-287: prod.files after the lookup of the base path, state d
\* being the one found or the one just created
mapState(base, d) ==
  IF base \in DOMAIN files THEN files ELSE (base :> d) @@ files

\* lines 251-300 and 341-348: look up or create the state, decide on
\* rotation, create the directory, detach the current writer
getFileStateResolve ==
  /\ ing.pc = "gfs" /\ ~crashed
  /\ \E statOk \in BOOLEAN, policy \in BOOLEAN, mkdirOk \in BOOLEAN :
       LET s == ing.s
           mapped == s \in DOMAIN filesByStream
           base == LogFileBasePath(s)
           stateExists == base \in DOMAIN files
           asked == IF mapped THEN filesByStream[s]
                    ELSE IF stateExists THEN files[base] ELSE 0
           stat == asked # 0 /\ StatCalled(states[asked], ing.force)
           rotate == IF asked = 0 THEN TRUE
                     ELSE needsRotate(states[asked], ing.force, statOk, policy)
           d == IF stateExists THEN files[base] ELSE Len(states) + 1
           states1 == IF stateExists THEN states
                      ELSE Append(states, newFileState)
           handles1 == IF stat
                       THEN [handles EXCEPT ![states[asked].writer].stats =
                                                Stat(states[asked].writer, statOk)]
                       ELSE handles
           nfail == (IF stat /\ ~statOk THEN 1 ELSE 0)
                    + (IF rotate /\ ~mkdirOk THEN 1 ELSE 0)
           old == states1[d].writer
       IN
       /\ statOk \/ stat
       /\ mkdirOk \/ rotate
       /\ policy => (asked # 0 /\ ~ing.force /\ cfg.rotate
                     /\ states[asked].writer # 0 /\ statOk)
       /\ fails + nfail <= MaxFails
       /\ fails' = fails + nfail
       /\ filesByStream' = IF mapped THEN filesByStream
                           ELSE (s :> d) @@ filesByStream
       /\ files' = mapState(base, d)
       /\ handles' = handles1
       /\ gfsErr' = IF rotate /\ ~mkdirOk /\ ing.op = "write"
                    THEN gfsErr \cup {ing.m} ELSE gfsErr
       /\ failedStreams' = IF ~rotate THEN failedStreams \ {s}
                           ELSE IF ~mkdirOk THEN failedStreams \cup {s}
                           ELSE failedStreams
       /\ IF ~rotate THEN
            \* return state, err: already open
            /\ ing' = [ing EXCEPT !.pc = "ret", !.d = asked, !.res = "ok"]
            /\ states' = states1
            /\ UNCHANGED closing
          ELSE IF ~mkdirOk THEN
            \* return nil, err: missing directory
            /\ ing' = [ing EXCEPT !.pc = "ret", !.d = 0, !.res = "mkdirFail"]
            /\ states' = states1
            /\ UNCHANGED closing
          ELSE
            \* state.writer = nil; go currentLog.Close()
            /\ Len(handles) < MaxOpens
            /\ ing' = [ing EXCEPT !.pc = "open", !.d = d, !.detached = old]
            /\ states' = [states1 EXCEPT ![d].writer = 0]
            /\ closing' = IF old # 0 THEN closing \cup {old} ELSE closing
  /\ UNCHANGED << dirVars, partVars >>
  /\ UNCHANGED << cfg, prodState, crashed, fsVars, rolls, tick, msgStream,
                  appendLog, flushLog, fallbackLog, creates >>

\* lines 302-339 and 350-378: choose the file name, open the file, attach
\* the writer, renew the symlink
getFileStateOpen ==
  /\ ing.pc = "open" /\ ~crashed
  /\ \E readDirOk \in BOOLEAN, openOk \in BOOLEAN, symlinkOk \in BOOLEAN,
        renameOk \in BOOLEAN :
       LET base == LogFileBasePath(ing.s)
           name == LogFileName(base, ReadDir(readDirOk))
           tmp == SymLinkNameTemporary(base)
           cur == SymLinkName(base)
           \* os.Symlink fails when the temporary name exists
           linked == symlinkOk /\ tmp \notin DOMAIN links
           links1 == IF linked THEN (tmp :> name) @@ links ELSE links
           \* os.Rename fails when the temporary name does not exist
           renamed == renameOk /\ tmp \in DOMAIN links1
           links2 == IF renamed
                     THEN [ p \in (DOMAIN links1 \cup {cur}) \ {tmp} |->
                              IF p = cur THEN links1[tmp] ELSE links1[p] ]
                     ELSE links1
           nfail == (IF ~readDirOk THEN 1 ELSE 0)
                    + (IF ~openOk THEN 1 ELSE 0)
                    + (IF ~symlinkOk THEN 1 ELSE 0)
                    + (IF ~renameOk THEN 1 ELSE 0)
           h == Len(handles) + 1
       IN
       /\ ~readDirOk => cfg.rotate
       /\ (~symlinkOk \/ ~renameOk) => (openOk /\ cfg.rotate)
       /\ fails + nfail <= MaxFails
       /\ fails' = fails + nfail
       /\ gfsErr' = IF ~openOk /\ ing.op = "write"
                    THEN gfsErr \cup {ing.m} ELSE gfsErr
       /\ failedStreams' = IF openOk THEN failedStreams \ {ing.s}
                           ELSE failedStreams \cup {ing.s}
       /\ IF ~openOk THEN
            \* return state, err
            /\ ing' = [ing EXCEPT !.pc = "ret", !.res = "openFail"]
            /\ UNCHANGED << states, handles, disk, links, creates >>
          ELSE
            /\ ing' = [ing EXCEPT !.pc = "ret", !.res = "ok"]
            /\ handles' = Append(handles,
                 [name |-> name, open |-> TRUE, stats |-> NoStats])
            /\ states' = [states EXCEPT ![ing.d].writer = h]
            /\ disk' = disk \cup {name}
            /\ creates' = IF name \in disk THEN creates
                          ELSE creates \cup {<<name, ing.m>>}
            /\ links' = IF cfg.rotate THEN links2 ELSE links
  /\ UNCHANGED << dirVars, partVars >>
  /\ UNCHANGED << cfg, prodState, crashed, mapVars, closing, rolls, tick,
                  msgStream, appendLog, flushLog, fallbackLog >>

\* ----------------------------------------------------------- writeMessage
\* line 407-410: a message of stream s arrives
writeMessage(s) ==
  /\ ing.pc = "idle" /\ ~crashed
  /\ prodState \in {"active", "stopping"}
  /\ Len(msgStream) < MaxMsgs
  /\ msgStream' = Append(msgStream, s)
  /\ fallbackLog' = Append(fallbackLog, << >>)
  /\ ing' = [IdleIng EXCEPT !.pc = "gfs", !.op = "write",
                            !.m = Len(msgStream) + 1, !.s = s]
  /\ UNCHANGED << dirVars, partVars >>
  /\ UNCHANGED << cfg, prodState, crashed, mapVars, states, handles, fsVars,
                  closing, fails, rolls, tick, appendLog, flushLog, gfsErr,
                  failedStreams, creates >>

\* writeMessageSteps without the return after the fallback (line 414)
writeMessageStepsNoReturn(err) ==
  IF err THEN {"TryFallback", "AppendOrFlush"} ELSE {"AppendOrFlush"}

\* lines 411-417: what writeMessage calls once getFileState has returned
writeMessageSteps(err) ==
  IF err THEN {"TryFallback"} ELSE {"AppendOrFlush"}

\* canBlock as prod.IsActive
canBlockWhileActive == IsActive

\* line 417: the canBlock argument writeMessage hands to AppendOrFlush
canBlock == IsActiveOrStopping

\* core.MessageBatch.AppendOrFlush(msg, flush, canBlock, tryFallback):
\* "append", or "flush" (flush, then wait for room), or "fallback"; a flush
\* scheduled at the flush threshold is a flush of writeBatchOnTimeOut
AppendOrFlush(batch, mayBlock) ==
  IF Len(batch) < batchMaxCount THEN "append"
  ELSE IF mayBlock THEN "flush"
  ELSE "fallback"

\* lines 411-417: getFileState has returned to writeMessage
writeMessageReturn ==
  /\ ing.pc = "ret" /\ ing.op = "write" /\ ~crashed
  /\ LET steps == writeMessageSteps(ing.res # "ok")
         d == ing.d
         log1 == IF "TryFallback" \in steps
                 THEN TryFallback(fallbackLog, <<ing.m>>, ByWriteMessage)
                 ELSE fallbackLog
         todo == IF "AppendOrFlush" \notin steps THEN "return"
                 ELSE IF d = 0 THEN "nil"
                 ELSE AppendOrFlush(states[d].batch, canBlock)
     IN
     CASE todo = "return" ->
            /\ fallbackLog' = log1
            /\ ing' = IdleIng
            /\ UNCHANGED << states, appendLog, crashed >>
       [] todo = "nil" ->
            \* state.batch of a nil state
            /\ fallbackLog' = log1
            /\ crashed' = TRUE
            /\ UNCHANGED << states, appendLog, ing >>
       [] todo = "append" ->
            /\ fallbackLog' = log1
            /\ states' = [states EXCEPT ![d].batch = Append(@, ing.m)]
            /\ appendLog' = Append(appendLog, <<ing.m, d>>)
            /\ ing' = IdleIng
            /\ UNCHANGED crashed
       [] todo = "flush" ->
            /\ mutexFree(d)
            /\ fallbackLog' = log1
            /\ states' = FlushBegin(d, "ing")
            /\ ing' = [ing EXCEPT !.pc = "flush", !.at = prodState,
                                  !.items = states[d].batch,
                                  !.cap = states[d].writer]
            /\ UNCHANGED << appendLog, crashed >>
       [] todo = "fallback" ->
            /\ fallbackLog' = TryFallback(log1, <<ing.m>>, ByAppendOrFlush)
            /\ ing' = IdleIng
            /\ UNCHANGED << states, appendLog, crashed >>
  /\ UNCHANGED << dirVars, partVars >>
  /\ UNCHANGED << cfg, prodState, mapVars, handles, fsVars, closing, fails,
                  rolls, tick, msgStream, flushLog, gfsErr, failedStreams,
                  creates >>

\* the flush AppendOrFlush called writes, then the message is appended
writeMessageFlush ==
  /\ ing.pc = "flush" /\ ~crashed
  /\ \E w \in FlushWriters(ing.d, ing.cap), writeOk \in BOOLEAN :
       /\ FlushWrite(ing.d, ing.items, w, writeOk)
       /\ IF w = 0
          THEN UNCHANGED << states, appendLog, ing >>
          ELSE /\ states' = [states EXCEPT ![ing.d].mutex = "none",
                                           ![ing.d].batch = Append(@, ing.m)]
               /\ appendLog' = Append(appendLog, <<ing.m, ing.d>>)
               /\ ing' = IdleIng
  /\ UNCHANGED << dirVars, partVars >>
  /\ UNCHANGED << cfg, prodState, mapVars, handles, fsVars, closing, rolls,
                  tick, msgStream, gfsErr, failedStreams, creates >>

\* -------------------------------------------------------------- rotateLog
\* line 391: the roll callback starts its loop over prod.filesByStream
rotateLog ==
  /\ ing.pc = "idle" /\ ~crashed
  /\ prodState = "active"
  /\ rolls < MaxRolls
  /\ filesByStream # << >>
  /\ rolls' = rolls + 1
  /\ ing' = [IdleIng EXCEPT !.pc = "roll", !.op = "rotate",
                            !.todo = DOMAIN filesByStream]
  /\ UNCHANGED << dirVars, partVars >>
  /\ UNCHANGED << cfg, prodState, crashed, mapVars, states, handles, fsVars,
                  closing, fails, tick, histVars >>

\* lines 392-393: the next stream id of the loop, or the end of the loop
rotateLogNext ==
  /\ ing.pc = "roll" /\ ~crashed
  /\ IF ing.todo = {} THEN ing' = IdleIng
     ELSE \E s \in ing.todo :
            ing' = [ing EXCEPT !.pc = "gfs", !.s = s, !.force = TRUE,
                               !.todo = @ \ {s}]
  /\ UNCHANGED << dirVars, partVars >>
  /\ UNCHANGED << cfg, prodState, crashed, mapVars, states, handles, fsVars,
                  closing, fails, rolls, tick, histVars >>

\* the loop of rotateLog ending at the first error
rotateLogBreak(res, todo) == IF res = "ok" THEN todo ELSE {}

\* lines 393-395: the stream ids the loop still has to visit after
\* getFileState has returned res: an error is logged, nothing else
rotateLogRest(res, todo) == todo

\* lines 393-395: getFileState has returned to rotateLog; errors are logged
rotateLogReturn ==
  /\ ing.pc = "ret" /\ ing.op = "rotate" /\ ~crashed
  /\ ing' = [ing EXCEPT !.pc = "roll", !.res = "none", !.detached = 0,
                        !.d = 0, !.s = "",
                        !.todo = rotateLogRest(ing.res, @)]
  /\ UNCHANGED << dirVars, partVars >>
  /\ UNCHANGED << cfg, prodState, crashed, mapVars, states, handles, fsVars,
                  closing, fails, rolls, tick, histVars >>

\* the goroutine of "go currentLog.Close()": fileStateWriterDisk.Close
writerClose(h) ==
  /\ h \in closing /\ ~crashed
  /\ handles' = [handles EXCEPT ![h].open = FALSE]
  /\ closing' = closing \ {h}
  /\ UNCHANGED << dirVars, partVars >>
  /\ UNCHANGED << cfg, prodState, crashed, mapVars, states, fsVars, fails,
                  rolls, ing, tick, histVars >>

\* ---------------------------------------------------- writeBatchOnTimeOut
\* batch.ReachedTimeThreshold: the batch is not empty and, as far as the
\* clock goes, may have waited long enough
ReachedTimeThreshold(batch, waited) == Len(batch) > 0 /\ waited

\* batch.ReachedSizeThreshold
ReachedSizeThreshold(batch, size) == Len(batch) >= size

\* lines 400-402: the ticker reaches state d in its loop over prod.files and
\* calls state.flush(), which takes the mutex and drains the batch
writeBatchOnTimeOut(d) ==
  /\ tick.pc = "idle" /\ ~crashed
  /\ prodState = "active"
  /\ d \in Range(files)
  /\ \E waited \in BOOLEAN :
       \/ ReachedTimeThreshold(states[d].batch, waited)
       \/ ReachedSizeThreshold(states[d].batch, cfg.batchFlushCount)
  /\ mutexFree(d)
  /\ states' = FlushBegin(d, "tick")
  /\ tick' = [pc |-> "flush", d |-> d, items |-> states[d].batch,
              cap |-> states[d].writer]
  /\ UNCHANGED << dirVars, partVars >>
  /\ UNCHANGED << cfg, prodState, crashed, mapVars, handles, fsVars, closing,
                  fails, rolls, ing, histVars >>

\* the flush of the ticker writes and releases the mutex, unless it ends
\* the process for want of a writer
writeBatchOnTimeOutFlush ==
  /\ tick.pc = "flush" /\ ~crashed
  /\ \E w \in FlushWriters(tick.d, tick.cap), writeOk \in BOOLEAN :
       /\ FlushWrite(tick.d, tick.items, w, writeOk)
       /\ IF tick.items # << >> /\ w = 0
          THEN /\ tick' = [tick EXCEPT !.pc = "fatal"]
               /\ UNCHANGED states
          ELSE /\ states' = [states EXCEPT ![tick.d].mutex = "none"]
               /\ tick' = IdleTick
  /\ UNCHANGED << dirVars, partVars >>
  /\ UNCHANGED << cfg, prodState, mapVars, handles, fsVars, closing, rolls,
                  ing, msgStream, appendLog, gfsErr, failedStreams, creates >>

\* ------------------------------------------------------------------ close
\* the runtime asks the producer to stop
Stop ==
  /\ prodState = "active" /\ ~crashed
  /\ prodState' = "stopping"
  /\ UNCHANGED << dirVars, partVars >>
  /\ UNCHANGED << cfg, crashed, mapVars, states, handles, fsVars, closing,
                  fails, rolls, ing, tick, histVars >>

\* closeStates that skips the states without buffered messages
closeStatesBuffered == { d \in Range(files) : states[d].batch # << >> }

\* line 423: the states close() visits
closeStates == Range(files)

\* line 420: the stop callback starts its loop over prod.files
close ==
  /\ ing.pc = "idle" /\ ~crashed
  /\ prodState = "stopping"
  /\ ing' = [IdleIng EXCEPT !.pc = "close", !.op = "close",
                            !.todo = closeStates]
  /\ UNCHANGED << dirVars, partVars >>
  /\ UNCHANGED << cfg, prodState, crashed, mapVars, states, handles, fsVars,
                  closing, fails, rolls, tick, histVars >>

\* lines 423-425 and 421: state.Close() of the next state begins its flush
\* (mutex, drain), or the loop is over and WorkerDone runs
closeNext ==
  /\ ing.pc = "close" /\ ~crashed
  /\ IF ing.todo = {} THEN
       /\ ing' = IdleIng
       /\ prodState' = "dead"
       /\ UNCHANGED states
     ELSE
       \E d \in ing.todo :
         /\ mutexFree(d)
         /\ states' = FlushBegin(d, "ing")
         /\ ing' = [ing EXCEPT !.pc = "closing", !.d = d, !.todo = @ \ {d},
                               !.items = states[d].batch,
                               !.cap = states[d].writer]
         /\ UNCHANGED prodState
  /\ UNCHANGED << dirVars, partVars >>
  /\ UNCHANGED << cfg, crashed, mapVars, handles, fsVars, closing, fails,
                  rolls, tick, histVars >>

\* fileState.Close: the flush writes unless FlushTimeoutSec aborts it, then
\* the writer is closed and the reference cleared
Close ==
  /\ ing.pc = "closing" /\ ~crashed
  /\ LET d == ing.d
         w == states[d].writer IN
     \E aborted \in BOOLEAN, writeOk \in BOOLEAN :
       /\ aborted => (cfg.flushTimeout > 0 /\ ing.items # << >> /\ writeOk)
       /\ IF aborted
          THEN UNCHANGED << flushLog, fallbackLog, crashed, fails >>
          ELSE FlushWrite(d, ing.items, w, writeOk)
       /\ IF ~aborted /\ ing.items # << >> /\ w = 0
          THEN UNCHANGED << states, handles, ing >>
          ELSE /\ states' = [states EXCEPT ![d].mutex = "none",
                                           ![d].writer = 0]
               /\ handles' = IF w = 0 THEN handles
                             ELSE [handles EXCEPT ![w].open = FALSE]
               /\ ing' = [ing EXCEPT !.pc = "close", !.d = 0,
                                     !.items = << >>, !.cap = 0]
  /\ UNCHANGED << dirVars, partVars >>
  /\ UNCHANGED << cfg, prodState, mapVars, fsVars, closing, rolls, tick,
                  msgStream, appendLog, gfsErr, failedStreams, creates >>

\* ------------------------------------------------------------------- Init
\* File.Configure
Configure(logFile, rotate, flushCount) ==
  [ wildcardPath    |-> HasWildcard(logFile),
    fileDir         |-> logFile.dir,
    fileName        |-> logFile.name,
    fileExt         |-> logFile.ext,
    rotate          |-> rotate,
    batchFlushCount |-> MinI(flushCount, batchMaxCount),
    flushTimeout    |-> flushTimeout,
    sizeByte        |-> sizeByte,
    compress        |-> FALSE,
    pruneCount      |-> 0 ]

\* no file, no writer, no goroutine
InitDir ==
  /\ dir = << >>
  /\ current = << >>
  /\ closers = << >>
  /\ pruners = << >>

\* nothing has been called on the parts followed on their own
InitParts ==
  /\ heap = << >>
  /\ rotateAt = << >>
  /\ store = << >>
  /\ sweep = << >>
  /\ buf = << >>

\* the producer after Configure, before the first message
InitFile ==
  /\ prodState = "active"
  /\ crashed = FALSE
  /\ filesByStream = << >>
  /\ files = << >>
  /\ states = << >>
  /\ handles = << >>
  /\ disk = {}
  /\ links = << >>
  /\ closing = {}
  /\ fails = 0
  /\ rolls = 0
  /\ ing = IdleIng
  /\ tick = IdleTick
  /\ msgStream = << >>
  /\ appendLog = << >>
  /\ flushLog = << >>
  /\ fallbackLog = << >>
  /\ gfsErr = {}
  /\ failedStreams = {}
  /\ creates = {}
  /\ InitDir

\* Batch/FlushCount over Batch/MaxCount is tried with rotation disabled
Init ==
  /\ cfg \in { Configure(lf, r, fc) :
                 lf \in LogFiles, r \in BOOLEAN, fc \in FlushCounts }
  /\ cfg.rotate => cfg.batchFlushCount = batchFlushCount
  /\ InitFile
  /\ InitParts

\* ------------------------------------------------------------------- Next
Next ==
  \/ \E s \in StreamIDs : writeMessage(s)
  \/ getFileStateResolve
  \/ getFileStateOpen
  \/ writeMessageReturn
  \/ writeMessageFlush
  \/ rotateLog
  \/ rotateLogNext
  \/ rotateLogReturn
  \/ \E h \in closing : writerClose(h)
  \/ \E d \in 1..Len(states) : writeBatchOnTimeOut(d)
  \/ writeBatchOnTimeOutFlush
  \/ Stop
  \/ close
  \/ closeNext
  \/ Close

Spec == Init /\ [][Next]_vars

\* ------------------------------------------- compression and pruning
\* The log directory of one destination under forced rotations that succeed,
\* with the goroutines every rotation starts: the Close of the detached
\* writer (compressAndCloseLog with Rotation/Compress) and Pruner.Prune.

\* everything but the directory, the failures and the rotations
fileVars == << cfg, prodState, crashed, mapVars, states, handles, fsVars,
               closing, ing, tick, histVars >>

\* an I/O failure may be injected; pruning is followed where every call
\* succeeds
MayFail == fails < MaxFails /\ cfg.pruneCount = 0

\* the destination of the stream that is rotated
DirBase == LogFileBasePath("A")

\* targetFileName of compressAndCloseLog
TargetFileName(name) == [name |-> name, gz |-> TRUE]

\* sourceFileName of compressAndCloseLog
SourceFileName(name) == [name |-> name, gz |-> FALSE]

\* the directory holds the file
Exists(f) == \E i \in 1..Len(dir) : dir[i] = f

\* the directory without the file
Without(d, f) == SelectSeq(d, LAMBDA e : e # f)

\* the file is created or written: it is the one modified last
Touch(d, f) == Append(Without(d, f), f)

\* os.Remove(f): fails on a file that is not there
Remove(d, f, ok) == IF ok THEN Without(d, f) ELSE d

\* the goroutine "go currentLog.Close()" of a detached writer
newCloser(name) ==
  [name |-> name, pc |-> "Close", err |-> "nil", left |-> 0,
   ret |-> "none", written |-> FALSE]

\* the goroutine "go prod.Pruner.Prune(logFileBasePath)"
newPruner == [pc |-> "Prune", todo |-> << >>]

\* Prune has returned
donePruner == [newPruner EXCEPT !.pc = "done"]

\* getFileState(streamID, true) where every call succeeds: lines 302-337
\* choose the name, 341-348 detach the writer and start its Close, 359-364
\* open the file, 376 start the pruner
rotateDir ==
  /\ rolls < MaxRotations
  /\ LET name == LogFileName(DirBase, { e.name : e \in Range(dir) }) IN
     /\ rolls' = rolls + 1
     /\ closers' = IF current = << >> THEN closers
                   ELSE Append(closers, newCloser(current[1]))
     /\ dir' = Touch(dir, SourceFileName(name))
     /\ current' = <<name>>
     /\ pruners' = Append(pruners, newPruner)

\* a forced rotation of the destination
getFileStateRotate ==
  /\ rotateDir
  /\ UNCHANGED << partVars, fileVars, fails >>

\* fileStateWriterDisk.Close, lines 477-483, and lines 501-511 of
\* compressAndCloseLog: without compression the file is closed; else the
\* target is opened, the source having 0..MaxChunks full chunks to copy
writerCloseStart(k) ==
  /\ closers[k].pc = "Close"
  /\ IF ~cfg.compress THEN
       /\ closers' = [closers EXCEPT ![k].pc = "done", ![k].ret = "nil"]
       /\ UNCHANGED << dir, fails >>
     ELSE
       \E openOk \in BOOLEAN, chunks \in 0..MaxChunks :
         /\ openOk \/ (MayFail /\ chunks = 0)
         /\ fails' = IF openOk THEN fails ELSE fails + 1
         /\ IF openOk THEN
              /\ dir' = Touch(dir, TargetFileName(closers[k].name))
              /\ closers' = [closers EXCEPT ![k].pc = "copy",
                                             ![k].left = chunks]
            ELSE
              \* w.file.Close(); return err
              /\ closers' = [closers EXCEPT ![k].pc = "done",
                                             ![k].ret = "err"]
              /\ UNCHANGED dir
  /\ UNCHANGED << partVars, fileVars, rolls, current, pruners >>

\* lines 520-523: one io.CopyN of the loop "for err == nil": a full chunk
\* (nil), the rest of the file (io.EOF), or another error
compressCopy(k) ==
  /\ closers[k].pc = "copy"
  /\ \E copyOk \in BOOLEAN :
       LET c == closers[k]
           target == TargetFileName(c.name) IN
       /\ copyOk \/ MayFail
       /\ fails' = IF copyOk THEN fails ELSE fails + 1
       /\ dir' = IF copyOk /\ Exists(target) THEN Touch(dir, target) ELSE dir
       /\ closers' =
            IF ~copyOk
            THEN [closers EXCEPT ![k].pc = "cleanup", ![k].err = "err",
                                 ![k].left = 0]
            ELSE IF c.left > 0
            THEN [closers EXCEPT ![k].left = c.left - 1]
            ELSE [closers EXCEPT ![k].pc = "cleanup", ![k].err = "EOF"]
  /\ UNCHANGED << partVars, fileVars, rolls, current, pruners >>

\* lines 530-537: the value returned after a failed copy: err is assigned
\* the result of os.Remove(targetFileName)
compressReturn(err, removed) == IF removed THEN "nil" ELSE "err"

\* lines 526-546: close the files, the results of the three Close calls
\* being dropped; after a failed copy remove the target and return; else
\* remove the source and return. written: the copy went through and the
\* gzip writer and the target file were closed without error.
compressAndCloseLogReturn(k) ==
  /\ closers[k].pc = "cleanup"
  /\ \E removeOk \in BOOLEAN, gzipCloseOk \in BOOLEAN,
        targetCloseOk \in BOOLEAN :
       LET c == closers[k]
           f == IF c.err # "EOF" THEN TargetFileName(c.name)
                ELSE SourceFileName(c.name)
           removed == removeOk /\ Exists(f)
           nfail == (IF removeOk THEN 0 ELSE 1)
                    + (IF gzipCloseOk THEN 0 ELSE 1)
                    + (IF targetCloseOk THEN 0 ELSE 1) IN
       /\ nfail = 0 \/ (MayFail /\ fails + nfail <= MaxFails)
       /\ fails' = fails + nfail
       /\ dir' = Remove(dir, f, removed)
       /\ closers' =
            [closers EXCEPT ![k].pc = "done", ![k].err = "nil",
               ![k].written = c.err = "EOF" /\ gzipCloseOk /\ targetCloseOk,
               ![k].ret = IF c.err # "EOF" THEN compressReturn(c.err, removed)
                          ELSE IF removed THEN "nil" ELSE "err"]
  /\ UNCHANGED << partVars, fileVars, rolls, current, pruners >>

\* tio.ListFilesByDateMatching(baseDir, baseName+".*"): the files of the
\* destination, oldest first (symlinks are left out)
ListFilesByDateMatching == dir

\* line 613: numFilesToPrune
numFilesToPrune(listed, count) == Len(listed) - count

\* Prune, lines 571-581, and pruneByCount, lines 604-616: list the files
\* and decide how many to remove
Prune(p) ==
  /\ pruners[p].pc = "Prune"
  /\ \E listOk \in BOOLEAN :
       LET listed == ListFilesByDateMatching
           n == numFilesToPrune(listed, cfg.pruneCount) IN
       /\ listOk \/ MayFail
       /\ fails' = IF listOk THEN fails ELSE fails + 1
       /\ pruners' =
            IF cfg.pruneCount > 0 /\ listOk /\ n >= 1
            THEN [pruners EXCEPT ![p] =
                    [pc |-> "remove", todo |-> SubSeq(listed, 1, n)]]
            ELSE [pruners EXCEPT ![p] = donePruner]
  /\ UNCHANGED << partVars, fileVars, rolls, dir, current, closers >>

\* lines 618-625: one turn of the loop of pruneByCount over the first
\* numFilesToPrune files of the list
pruneByCount(p) ==
  /\ pruners[p].pc = "remove"
  /\ \E removeOk \in BOOLEAN :
       LET q == pruners[p]
           f == Head(q.todo)
           removed == removeOk /\ Exists(f) IN
       /\ removeOk \/ MayFail
       /\ fails' = IF removeOk THEN fails ELSE fails + 1
       /\ dir' = Remove(dir, f, removed)
       /\ pruners' = IF Len(q.todo) > 1
                     THEN [pruners EXCEPT ![p].todo = Tail(q.todo)]
                     ELSE [pruners EXCEPT ![p] = donePruner]
  /\ UNCHANGED << partVars, fileVars, rolls, current, closers >>

\* one destination with rotation, with or without compression and pruning
InitRotated ==
  /\ cfg \in { [Configure(lf, TRUE, batchFlushCount)
                   EXCEPT !.compress = c, !.pruneCount = p] :
                 lf \in { l \in LogFiles : ~HasWildcard(l) },
                 c \in BOOLEAN, p \in PruneCounts }
  /\ InitFile
  /\ InitParts

NextRotated ==
  \/ getFileStateRotate
  \/ \E k \in 1..Len(closers) : writerCloseStart(k)
  \/ \E k \in 1..Len(closers) : compressCopy(k)
  \/ \E k \in 1..Len(closers) : compressAndCloseLogReturn(k)
  \/ \E p \in 1..Len(pruners) : Prune(p)
  \/ \E p \in 1..Len(pruners) : pruneByCount(p)

SpecRotated == InitRotated /\ [][NextRotated]_vars

\* ------------------------------------------- rotateLog on one destination
\* The roll callback on the log directory of one destination: the stream
\* ids that resolve to the destination are mapped by their first message,
\* and rotateLog rotates once for every stream id it visits.

\* the producer but for the two maps and the control task
restVars == << cfg, prodState, crashed, states, handles, fsVars, closing,
               tick, histVars >>

\* the stream ids that resolve to the destination
StreamsOfDir == { s \in StreamIDs : LogFileBasePath(s) = DirBase }

\* getFileState(s, false) of the first message of a stream id, every call
\* succeeding: lines 284-289 create the state, map it and go on to open
\* its file; lines 290-295 map the stream id to the state that exists,
\* whose writer needs no rotation
getFileStateMap(s) ==
  /\ ing.pc = "idle"
  /\ s \in StreamsOfDir \ DOMAIN filesByStream
  /\ filesByStream' = (s :> 1) @@ filesByStream
  /\ IF current = << >> THEN rotateDir ELSE UNCHANGED << dirVars, rolls >>
  /\ UNCHANGED << partVars, restVars, files, ing, fails >>

\* line 391: the roll callback starts its loop over prod.filesByStream
rotateLogDir ==
  /\ ing.pc = "idle"
  /\ filesByStream # << >>
  /\ ing' = [IdleIng EXCEPT !.pc = "roll", !.op = "rotate",
                            !.todo = DOMAIN filesByStream]
  /\ UNCHANGED << partVars, restVars, mapVars, dirVars, rolls, fails >>

\* lines 392-393: getFileState(streamID, true) for the next stream id of
\* the loop: needsRotate answers true and the destination is rotated
rotateLogDirNext ==
  /\ ing.pc = "roll"
  /\ \E s \in ing.todo :
       ing' = [ing EXCEPT !.todo = @ \ {s}]
  /\ rotateDir
  /\ UNCHANGED << partVars, restVars, mapVars, fails >>

\* line 397: the loop has visited every stream id
rotateLogDirReturn ==
  /\ ing.pc = "roll"
  /\ ing.todo = {}
  /\ ing' = IdleIng
  /\ UNCHANGED << partVars, restVars, mapVars, dirVars, rolls, fails >>

\* rotation without compression and pruning, with and without the "*"
\* placeholder in the path
InitRotateLog ==
  /\ cfg \in { Configure(lf, TRUE, batchFlushCount) : lf \in LogFiles }
  /\ InitFile
  /\ InitParts

NextRotateLog ==
  \/ \E s \in StreamIDs : getFileStateMap(s)
  \/ rotateLogDir
  \/ rotateLogDirNext
  \/ rotateLogDirReturn
  \/ \E k \in 1..Len(closers) : writerCloseStart(k)
  \/ \E p \in 1..Len(pruners) : Prune(p)

SpecRotateLog == InitRotateLog /\ [][NextRotateLog]_vars

\* ------------------------------------------------- the message objects
\* writeMessage as the owner of msg sees it: upstream builds a message,
\* hands it to writeMessage and may afterwards reuse the object.

\* what a message carries
Payloads == {"p", "q"}

\* everything but the message objects
exceptHeap == << fileVars, dirVars, fails, rolls, rotateAt, store, sweep,
                 buf >>

\* Message.Clone(): a new object with a copy of the payload
Clone(obj) == [clone |-> TRUE, data |-> obj.data]

\* line 417: the message writeMessage passes to AppendOrFlush, of msg
\* and streamMsg
Buffered(msg, streamMsg) == msg

\* lines 407-418: clone the message; after a getFileState error hand msg
\* to the fallback, else append to the batch of the state. A batch entry
\* is the object and, as history, the payload it had when appended.
writeMessageObjects ==
  /\ Len(heap.objects) < 2 * MaxMsgs
  /\ \E data \in Payloads, gfsOk \in BOOLEAN :
       LET msg == Len(heap.objects) + 1
           streamMsg == Len(heap.objects) + 2
           object == [clone |-> FALSE, data |-> data]
           objects == heap.objects \o << object, Clone(object) >> IN
       heap' =
         IF gfsOk
         THEN [heap EXCEPT !.objects = objects,
                 !.batch = Append(@, [obj |-> Buffered(msg, streamMsg),
                                      data |-> data])]
         ELSE [heap EXCEPT !.objects = objects,
                 !.fallback = Append(@, msg)]
  /\ UNCHANGED exceptHeap

\* upstream reuses a message object it owns for another payload
upstreamReuse ==
  /\ \E o \in 1..Len(heap.objects), data \in Payloads :
       /\ ~heap.objects[o].clone
       /\ heap.objects[o].data # data
       /\ heap' = [heap EXCEPT !.objects[o].data = data]
  /\ UNCHANGED exceptHeap

\* the flush of the batch takes the messages out of it
flushObjects ==
  /\ heap.batch # << >>
  /\ heap' = [heap EXCEPT !.batch = << >>]
  /\ UNCHANGED exceptHeap

InitMessages ==
  /\ cfg = Configure(CHOOSE l \in LogFiles : ~HasWildcard(l), FALSE,
                     batchFlushCount)
  /\ InitFile
  /\ heap = [objects |-> << >>, batch |-> << >>, fallback |-> << >>]
  /\ rotateAt = << >>
  /\ store = << >>
  /\ sweep = << >>
  /\ buf = << >>

NextMessages ==
  \/ writeMessageObjects
  \/ upstreamReuse
  \/ flushObjects

SpecMessages == InitMessages /\ [][NextMessages]_vars

\* ------------------------------------------------ Configure: Rotation/At
\* the characters of a Rotation/At value: two digits, the colon, a letter
AtChars == {"1", "7", ":", "x"}

\* the values of Rotation/At: every string of at most MaxAtLen characters
AtValues == UNION { [1..n -> AtChars] : n \in 0..MaxAtLen }

\* everything but the reading of Rotation/At
exceptRotateAt == << fileVars, dirVars, fails, rolls, heap, store, sweep,
                     buf >>

\* the digit a character stands for, -1 for any other character
DigitOf(c) == IF c = "1" THEN 1 ELSE IF c = "7" THEN 7 ELSE -1

RECURSIVE SplitFrom(_, _, _)
\* strings.Split(s, ":") from position i on, part being the piece read so
\* far: n separators give n + 1 pieces, empty ones included
SplitFrom(s, i, part) ==
  IF i > Len(s) THEN << part >>
  ELSE IF s[i] = ":" THEN << part >> \o SplitFrom(s, i + 1, << >>)
  ELSE SplitFrom(s, i + 1, Append(part, s[i]))

\* strings.Split(rotateAt, ":")
Split(s) == SplitFrom(s, 1, << >>)

\* the bounds of an 8 bit integer
MaxInt8 == 127

RECURSIVE ParseDigits(_, _, _)
\* the digits of s from position i on, n being the value read so far:
\* <<value, err>> with err one of "nil", "syntax", "range"
ParseDigits(s, i, n) ==
  IF i > Len(s) THEN << n, "nil" >>
  ELSE IF DigitOf(s[i]) < 0 THEN << 0, "syntax" >>
  ELSE IF n * 10 + DigitOf(s[i]) > MaxInt8
       THEN IF \A j \in i..Len(s) : DigitOf(s[j]) >= 0
            THEN << MaxInt8, "range" >> ELSE << 0, "syntax" >>
  ELSE ParseDigits(s, i + 1, n * 10 + DigitOf(s[i]))

\* strconv.ParseInt(s, 10, 8): the empty string is a syntax error
ParseInt(s) == IF s = << >> THEN << 0, "syntax" >> ELSE ParseDigits(s, 1, 0)

\* lines 238-248 on a value: a panic when parts[1] does not exist, else
\* the hour and the minute stored, the errors of ParseInt being dropped
ReadRotateAt(value) ==
  IF value = << >> THEN
    [outcome |-> "started", atHour |-> -1, atMinute |-> -1]
  ELSE
    LET parts == Split(value) IN
    IF Len(parts) < 2 THEN
      [outcome |-> "panic", atHour |-> -1, atMinute |-> -1]
    ELSE
      [outcome |-> "started", atHour |-> ParseInt(parts[1])[1],
       atMinute |-> ParseInt(parts[2])[1]]

\* Configure reads the value
ConfigureRotateAt ==
  /\ rotateAt.pc = "Configure"
  /\ rotateAt' = [value |-> rotateAt.value, pc |-> "done",
                  read |-> ReadRotateAt(rotateAt.value)]
  /\ UNCHANGED exceptRotateAt

InitRotateAt ==
  /\ cfg = Configure(CHOOSE l \in LogFiles : ~HasWildcard(l), TRUE,
                     batchFlushCount)
  /\ InitFile
  /\ rotateAt \in { [value |-> v, pc |-> "Configure",
                     read |-> [outcome |-> "none", atHour |-> -1,
                               atMinute |-> -1]] : v \in AtValues }
  /\ heap = << >>
  /\ store = << >>
  /\ sweep = << >>
  /\ buf = << >>

NextRotateAt == ConfigureRotateAt

SpecRotateAt == InitRotateAt /\ [][NextRotateAt]_vars

\* ----------------------------------------------------------------- Metric
\* The metric store after New(ExistingMetric), and calls of Set, Add, Sub
\* and Get made by concurrent callers. A call first reads the map
\* (met.store[name]) and then does its sync/atomic operation on the cell.

\* a name New was called with, and one it was never called with
ExistingMetric == "hits"
MetricNames == {ExistingMetric, "misses"}

\* the values the calls pass
MetricValues == {1, 2}

\* int64 at the width of WordBits bits, two's complement
WordSize == 2 ^ WordBits
MaxWord == (WordSize \div 2) - 1
Wrap(x) == ((x + WordSize \div 2) % WordSize) - WordSize \div 2

\* the values of the metric before the calls
InitialValues == {0, MaxWord - 1}

\* everything but the metric store
exceptStore == << fileVars, dirVars, fails, rolls, heap, rotateAt, sweep,
                  buf >>

\* a caller that has not called yet
idleCaller ==
  [pc |-> "idle", op |-> "none", name |-> "", value |-> 0, ptr |-> "nil",
   ret |-> << >>]

\* atomic.StoreInt64(addr, value)
StoreInt64(cell, value) == value

\* atomic.AddInt64(addr, delta) as a plain store of delta
AddInt64AsStore(cell, delta) == Wrap(delta)

\* atomic.AddInt64(addr, delta)
AddInt64(cell, delta) == Wrap(cell + delta)

\* a caller calls Set, Add, Sub or Get: the map is read (lines 26, 41, 46,
\* 52); Get returns 0 and an error when the name does not exist
metricCall(c) ==
  /\ store.callers[c].pc = "idle"
  /\ \E op \in {"Set", "Add", "Sub", "Get"}, name \in MetricNames,
        value \in MetricValues :
       LET exists == name \in DOMAIN store.cells IN
       /\ op = "Get" => value = 1
       /\ store' = [store EXCEPT !.callers[c] =
            IF op = "Get" /\ ~exists
            THEN [idleCaller EXCEPT !.pc = "done", !.op = op,
                    !.name = name, !.ret = << 0, "err" >>]
            ELSE [idleCaller EXCEPT !.pc = "atomic", !.op = op,
                    !.name = name,
                    !.value = IF op = "Get" THEN 0 ELSE value,
                    !.ptr = IF exists THEN name ELSE "nil"]]
  /\ UNCHANGED exceptStore

\* the atomic operation of the call, on the cell the map gave: one step;
\* a nil pointer panics
metricAtomic(c) ==
  /\ store.callers[c].pc = "atomic"
  /\ LET q == store.callers[c]
         cell == store.cells[q.ptr] IN
     store' =
       IF q.ptr = "nil" THEN
         [store EXCEPT !.callers[c].pc = "panic"]
       ELSE IF q.op = "Get" THEN
         [store EXCEPT !.callers[c].pc = "done",
                       !.callers[c].ret = << cell, "nil" >>]
       ELSE
         [store EXCEPT !.callers[c].pc = "done",
            !.cells[q.ptr] =
               IF q.op = "Set" THEN StoreInt64(cell, q.value)
               ELSE IF q.op = "Add" THEN AddInt64(cell, q.value)
               ELSE AddInt64(cell, -q.value)]
  /\ UNCHANGED exceptStore

InitMetric ==
  /\ cfg = Configure(CHOOSE l \in LogFiles : ~HasWildcard(l), FALSE,
                     batchFlushCount)
  /\ InitFile
  /\ \E v \in InitialValues :
       store = [cells |-> [n \in {ExistingMetric} |-> v], initial |-> v,
                callers |-> [c \in 1..MaxCallers |-> idleCaller]]
  /\ heap = << >>
  /\ rotateAt = << >>
  /\ sweep = << >>
  /\ buf = << >>

NextMetric ==
  \/ \E c \in 1..MaxCallers : metricCall(c)
  \/ \E c \in 1..MaxCallers : metricAtomic(c)

SpecMetric == InitMetric /\ [][NextMetric]_vars

\* ------------------------------------------------------ s3ByteBuffer.Seek
\* One Seek on a buffer, for the s3ByteBuffer of producer/awss3 and for
\* the one vendored under vendor/: the vendored Seek has no loops.
\* A compressed buffer is its bytes.Buffer: size is buffer.Len(), the
\* unread part, and unread tells whether UnreadByte can give a byte back.

\* the positions a buffer starts at, and the lengths of its contents
Positions == (0..MaxBuf) \cup {MaxWord}
BufLens == 0..MaxBuf

\* the arguments of Seek
Offsets == (-MaxOffset)..MaxOffset
Whences == {0, 1, 2}

\* everything but the buffer
exceptBuf == << fileVars, dirVars, fails, rolls, heap, rotateAt, store,
                sweep >>

\* lines 117-124 and 144-151: the position asked for
SeekPosition(whence, offset, position, size) ==
  IF whence = 0 THEN Wrap(offset)
  ELSE IF whence = 1 THEN Wrap(position + offset)
  ELSE Wrap(size + offset)

\* bytes.Buffer.ReadByte: the unread part loses a byte, if it has one
ReadByte(b) ==
  IF b.size > 0 THEN [b EXCEPT !.size = @ - 1, !.unread = TRUE]
  ELSE [b EXCEPT !.unread = FALSE]

\* bytes.Buffer.UnreadByte: gives back the byte of a read just made
UnreadByte(b) ==
  IF b.unread THEN [b EXCEPT !.size = @ + 1, !.unread = FALSE] ELSE b

\* the step of the counter of the loop of lines 130-133
BackStep(diff) == Wrap(diff - 1)

\* the step of the counter of the loop of lines 137-140
ForwardStep(diff) == Wrap(diff + 1)

\* Seek returns position and nil
seekDone(b, position) ==
  [b EXCEPT !.pc = "done", !.position = position, !.diff = 0,
            !.ret = << position, "nil" >>]

\* lines 113-128 and 142-158: Seek is called; a negative position is an
\* error; an uncompressed buffer, and the vendored Seek, set the position
\* and return; else the loops of lines 128-141 follow
Seek ==
  /\ buf.pc = "idle"
  /\ \E offset \in Offsets, whence \in Whences :
       LET position == SeekPosition(whence, offset, buf.position, buf.size)
           b == [buf EXCEPT !.offset = offset, !.whence = whence,
                            !.target = position] IN
       buf' =
         IF position < 0
         THEN [b EXCEPT !.pc = "done", !.ret = << 0, "err" >>]
         ELSE IF ~buf.compress \/ buf.vendored THEN seekDone(b, position)
         ELSE IF position < buf.position
         THEN [b EXCEPT !.pc = "back", !.diff = buf.position - position]
         ELSE IF position > buf.position
         THEN [b EXCEPT !.pc = "forward", !.diff = position - buf.position]
         ELSE seekDone(b, position)
  /\ UNCHANGED exceptBuf

\* lines 130-133: one turn of the loop "for diff > 0", or its end
SeekBack ==
  /\ buf.pc = "back"
  /\ buf' = IF buf.diff > 0
            THEN [UnreadByte(buf) EXCEPT !.diff = BackStep(buf.diff),
                                         !.turns = @ + 1]
            ELSE seekDone(buf, buf.target)
  /\ UNCHANGED exceptBuf

\* lines 137-140: one turn of the loop "for diff > 0", or its end
SeekForward ==
  /\ buf.pc = "forward"
  /\ buf' = IF buf.diff > 0
            THEN [ReadByte(buf) EXCEPT !.diff = ForwardStep(buf.diff),
                                       !.turns = @ + 1]
            ELSE seekDone(buf, buf.target)
  /\ UNCHANGED exceptBuf

\* a buffer, compressed or not, with some contents and a position
InitSeek ==
  /\ cfg = Configure(CHOOSE l \in LogFiles : ~HasWildcard(l), FALSE,
                     batchFlushCount)
  /\ InitFile
  /\ \E vendored \in BOOLEAN, compress \in BOOLEAN, position \in Positions,
        size \in BufLens, unread \in BOOLEAN :
       /\ unread => compress
       /\ buf = [vendored |-> vendored, compress |-> compress,
                 position |-> position, size |-> size, unread |-> unread,
                 pc |-> "idle", offset |-> 0, whence |-> 0, target |-> 0,
                 diff |-> 0, turns |-> 0, ret |-> << >>,
                 before |-> position, end |-> size]
  /\ heap = << >>
  /\ rotateAt = << >>
  /\ store = << >>
  /\ sweep = << >>

NextSeek ==
  \/ Seek
  \/ SeekBack
  \/ SeekForward

SpecSeek == InitSeek /\ [][NextSeek]_vars

\* ------------------------------------------------------ the prune policies
\* One sweep of pruneByHour, pruneByCount or pruneToSize over the listing
\* tio.ListFilesByDateMatching returned: the files oldest first, each with
\* its size and with whether it was modified before the prune date, so that
\* the files before the prune date come first. Any os.Remove may fail.

\* the policy and its setting: Prune/AfterHours, Prune/Count and
\* Prune/TotalSizeMB (in the unit of FileSizes)
Policies ==
  { [name |-> "pruneByHour", arg |-> 1] }
    \cup { [name |-> "pruneByCount", arg |-> c] : c \in 1..(MaxFiles - 1) }
    \cup { [name |-> "pruneToSize", arg |-> m] : m \in 1..MaxFiles }

\* the sizes of the files
FileSizes == {1, 2}

\* the listings: n files, the first k of them before the prune date
Listings ==
  UNION { { [i \in 1..n |-> [size |-> sizes[i], old |-> i <= k]] :
              sizes \in [1..n -> FileSizes], k \in 0..n } :
          n \in 0..MaxFiles }

\* everything but the sweep
exceptSweep == << fileVars, dirVars, fails, rolls, heap, rotateAt, store,
                  buf >>

RECURSIVE SizeOf(_, _)
\* the sizes of the files of the listing at the indices of the set
SizeOf(listed, idx) ==
  IF idx = {} THEN 0
  ELSE LET i == CHOOSE j \in idx : TRUE IN
       listed[i].size + SizeOf(listed, idx \ {i})

\* lines 586-590, 607-616, 631-640: list the files; an error ends the sweep;
\* pruneToSize sums the sizes
pruneList ==
  /\ sweep.pc = "Prune"
  /\ \E listOk \in BOOLEAN :
       sweep' = IF ~listOk THEN [sweep EXCEPT !.pc = "done", !.listOk = FALSE]
                ELSE [sweep EXCEPT !.pc = "loop", !.i = 1,
                        !.totalSize = SizeOf(sweep.listed,
                                             DOMAIN sweep.listed)]
  /\ UNCHANGED exceptSweep

\* the loop that ends at the first os.Remove that fails
sweepBreak(i, removeOk, n) == IF removeOk THEN i + 1 ELSE n + 1

\* lines 594, 618, 642: the index of the next turn of the loop: the error
\* of os.Remove is logged, nothing else
sweepNext(i, removeOk, n) == i + 1

\* the loop of the policy goes on with file i: line 594 (in the listing and
\* before the prune date), lines 613-618 (among the first numFilesToPrune),
\* lines 642-645 (in the listing, the total over maxSize)
sweepGoesOn ==
  LET n == Len(sweep.listed) IN
  IF sweep.policy.name = "pruneByHour"
  THEN sweep.i <= n /\ sweep.listed[sweep.i].old
  ELSE IF sweep.policy.name = "pruneByCount"
  THEN sweep.i <= numFilesToPrune(sweep.listed, sweep.policy.arg)
  ELSE sweep.i <= n /\ sweep.totalSize > sweep.policy.arg

\* lines 594-601, 618-625, 642-653: one turn of the loop: os.Remove of file
\* i; pruneToSize takes the size off the total when the file is removed
pruneTurn ==
  /\ sweep.pc = "loop"
  /\ IF ~sweepGoesOn THEN sweep' = [sweep EXCEPT !.pc = "done"]
     ELSE \E removeOk \in BOOLEAN :
            sweep' =
              [sweep EXCEPT
                 !.i = sweepNext(@, removeOk, Len(sweep.listed)),
                 !.attempted = @ \cup {sweep.i},
                 !.removed = IF removeOk THEN @ \cup {sweep.i} ELSE @,
                 !.totalSize =
                    IF removeOk /\ sweep.policy.name = "pruneToSize"
                    THEN @ - sweep.listed[sweep.i].size ELSE @]
  /\ UNCHANGED exceptSweep

InitPrune ==
  /\ cfg = Configure(CHOOSE l \in LogFiles : ~HasWildcard(l), TRUE,
                     batchFlushCount)
  /\ InitFile
  /\ sweep \in { [policy |-> p, listed |-> l, pc |-> "Prune", listOk |-> TRUE,
                  i |-> 0, totalSize |-> 0, attempted |-> {},
                  removed |-> {}] : p \in Policies, l \in Listings }
  /\ heap = << >>
  /\ rotateAt = << >>
  /\ store = << >>
  /\ buf = << >>

NextPrune ==
  \/ pruneList
  \/ pruneTurn

SpecPrune == InitPrune /\ [][NextPrune]_vars

\* ----------------------------------------------------------------- claims
\* C1: after any sequence of getFileState calls, failed ones included, every
\* mapped stream id has the state that prod.files holds for the base path
\* the stream resolves to, and no state serves two base paths; streams that
\* resolve to one base path therefore share one state.
C1_StreamsShareTheStateOfTheirPath ==
  /\ \A s \in DOMAIN filesByStream :
        /\ LogFileBasePath(s) \in DOMAIN files
        /\ filesByStream[s] = files[LogFileBasePath(s)]
  /\ \A k1, k2 \in DOMAIN files : files[k1] = files[k2] => k1 = k2
  /\ Range(files) = 1..Len(states)

\* two stream ids share one state, one of them after a failed call
C1_Witness ==
  \E s, t \in DOMAIN filesByStream :
     /\ s # t
     /\ filesByStream[s] = filesByStream[t]
     /\ filesByStream[s] = files[LogFileBasePath(t)]
     /\ s \in failedStreams


\* the message is not in the batch of any state
Unbuffered(m) ==
  \A d \in 1..Len(states) :
     \A i \in 1..Len(states[d].batch) : states[d].batch[i] # m

\* the message was never appended to a batch
NeverAppended(m) == \A i \in 1..Len(appendLog) : appendLog[i][1] # m

\* C2: a writeMessage whose getFileState failed (MkdirAll or OpenFile) hands
\* its message to TryFallback exactly once, appends it to no batch and
\* creates no file.
C2_FailedGetFileStateFallsBackOnce ==
  \A m \in gfsErr :
     \/ ing.m = m /\ ing.pc # "idle"
     \/ /\ fallbackLog[m] = <<ByWriteMessage>>
        /\ NeverAppended(m)
        /\ Unbuffered(m)
        /\ \A c \in creates : c[2] # m

\* a writeMessage with a failed getFileState has returned
C2_Witness ==
  \E m \in gfsErr : ing.pc = "idle" /\ fallbackLog[m] = <<ByWriteMessage>>

\* C3: when getFileState returns after a rotation whose OpenFile failed, the
\* writer it detached is still the writer of the state and still open.
C3_FailedRotationKeepsTheWriter ==
  (ing.pc = "ret" /\ ing.res = "openFail" /\ ing.detached # 0)
    => /\ states[ing.d].writer = ing.detached
       /\ handles[ing.detached].open
       /\ ing.detached \notin closing

\* C4: after a failed getFileState of a stream, the getFileState of the
\* next writeMessage of that stream does not return the existing state
\* without a writer: it goes on to MkdirAll and OpenFile.
C4_NextMessageRetriesTheOpen ==
  [][ ( /\ ing.pc = "gfs" /\ ing.op = "write"
        /\ ing.s \in failedStreams
        /\ ing'.pc = "ret" /\ ing'.res = "ok" )
      => states'[ing'.d].writer # 0 ]_vars

\* writeMessage is about to call AppendOrFlush on a batch at capacity
AtFullBatch ==
  /\ ing.pc = "ret" /\ ing.op = "write" /\ ing.res = "ok"
  /\ Len(states[ing.d].batch) >= batchMaxCount

C6_SuccessfulFlushFeedsNoFallback ==
  \A k \in 1..Len(flushLog) :
     flushLog[k].ok =>
       \A i \in 1..Len(flushLog[k].items) :
          ByFlush(k) \notin Range(fallbackLog[flushLog[k].items[i]])

\* a flush has written its messages
C6_Witness ==
  \E k \in 1..Len(flushLog) : flushLog[k].ok /\ flushLog[k].items # << >>

\* a Write that succeeded carried the message
Written(m) ==
  \E k \in 1..Len(flushLog) :
     /\ flushLog[k].ok
     /\ \E i \in 1..Len(flushLog[k].items) : flushLog[k].items[i] = m

\* C7: once close has run to its end, every message writeMessage was given
\* has been written to a file or handed to TryFallback.
C7_NoMessageIsLost ==
  prodState = "dead" =>
    \A m \in 1..Len(msgStream) : Written(m) \/ fallbackLog[m] # << >>

\* the position of a message in the order of the appends
AppendPos(m) == CHOOSE p \in 1..Len(appendLog) : appendLog[p][1] = m

\* C8: messages of one destination are written in the order in which they
\* were appended, within a flush and across flushes.
C8_WritesFollowTheAppends ==
  \A k1, k2 \in 1..Len(flushLog) :
     (flushLog[k1].ok /\ flushLog[k2].ok) =>
       \A i1 \in 1..Len(flushLog[k1].items), i2 \in 1..Len(flushLog[k2].items) :
          LET m1 == flushLog[k1].items[i1]
              m2 == flushLog[k2].items[i2] IN
          ( /\ LogFileBasePath(msgStream[m1]) = LogFileBasePath(msgStream[m2])
            /\ AppendPos(m1) < AppendPos(m2) )
          => (k1 < k2 \/ (k1 = k2 /\ i1 < i2))

\* two flushes of one destination have written one after the other, three
\* messages or more between them
C8_Witness ==
  \E k1, k2 \in 1..Len(flushLog) :
     /\ k1 < k2 /\ flushLog[k1].ok /\ flushLog[k2].ok
     /\ flushLog[k1].d = flushLog[k2].d
     /\ Len(flushLog[k1].items) + Len(flushLog[k2].items) >= 3

\* C9: no flush holds the mutex of a state while getFileState is between
\* detaching the old writer of that state and attaching the new one.
C9_FlushExcludesTheWriterSwap ==
  ~( /\ ing.pc = "open" /\ ing.detached # 0
     /\ states[ing.d].mutex = "tick" )

\* C10: every Write goes to the writer attached to the state at that
\* moment, never to a writer rotation has detached.
C10_NoWriteToADetachedWriter ==
  \A k \in 1..Len(flushLog) : flushLog[k].attached

\* C11: with rotation enabled, when getFileState has opened a new file, the
\* _current symlink of the destination points to that file, whatever
\* os.Symlink and os.Rename returned and whether or not the temporary name
\* was left over.
C11_CurrentLinkNamesTheNewFile ==
  [][ ( /\ ing.pc = "open" /\ cfg.rotate
        /\ ing'.pc = "ret" /\ ing'.res = "ok" )
      => /\ SymLinkName(LogFileBasePath(ing.s)) \in DOMAIN links'
         /\ links'[SymLinkName(LogFileBasePath(ing.s))]
              = handles'[states'[ing.d].writer].name ]_vars

\* C12: with rotation enabled, the counter of the file name getFileState
\* chooses is greater than the counter of every existing entry with the same
\* signature (an entry without counter counting as 0, so that the counter is
\* left out only when there is no such entry), and the name is not the name
\* of an existing file.
C12_ChosenCounterIsNew ==
  [][ ( /\ ing.pc = "open" /\ cfg.rotate
        /\ ing'.pc = "ret" /\ ing'.res = "ok" )
      => LET name == handles'[states'[ing.d].writer].name IN
         /\ \A f \in disk :
               (f.base = name.base /\ f.stamped) => name.ctr > f.ctr
         /\ name \notin disk ]_vars

\* C16: with rotation enabled and a size limit, a writeMessage that finds
\* the current file of its destination at or over the limit does not get the
\* state back as it is: its getFileState goes on to rotate.
C16_FileOverTheSizeLimitRotates ==
  [][ ( /\ ing.pc = "gfs" /\ ing.op = "write"
        /\ cfg.rotate /\ cfg.sizeByte > 0
        /\ ing.s \in DOMAIN filesByStream
        /\ states[filesByStream[ing.s]].writer # 0
        /\ FileSize(handles[states[filesByStream[ing.s]].writer].name)
             >= cfg.sizeByte
        /\ ing'.pc = "ret" )
      => ing'.res # "ok" ]_vars

\* C17: in every reachable state no batch holds more than Batch/MaxCount
\* messages, and the flush threshold the producer uses is at most
\* Batch/MaxCount, whatever Batch/FlushCount was configured.
C17_BatchAndThresholdWithinMaxCount ==
  /\ \A d \in 1..Len(states) : Len(states[d].batch) <= batchMaxCount
  /\ cfg.batchFlushCount <= batchMaxCount

\* a batch is full under a flush count that was configured over the maximum
C17_Witness ==
  /\ cfg.batchFlushCount = MinI(batchMaxCount + 1, batchMaxCount)
  /\ cfg.batchFlushCount # batchFlushCount
  /\ \E d \in 1..Len(states) : Len(states[d].batch) = batchMaxCount

\* C18: the flush of a tick that has drained messages from a batch ends with
\* each of them written to the file (or, Write having failed, handed to the
\* fallback), and it rotates nothing: no file is opened, closed or linked
\* and no state is mapped.
C18_TickWritesTheBatch ==
  [][ ( /\ tick.pc = "flush" /\ tick.items # << >>
        /\ tick'.pc # "flush" )
      => /\ tick'.pc = "idle"
         /\ Len(flushLog') = Len(flushLog) + 1
         /\ flushLog'[Len(flushLog')].items = tick.items
         /\ UNCHANGED << handles, disk, links, closing, filesByStream,
                         files >> ]_vars

\* C19: close visits every state of prod.files; the Close of a state leaves
\* it with an empty batch and without writer, any Write of its flush having
\* gone to the writer while it was still open and the writer being closed
\* afterwards; when shutdown has completed, every state has an empty batch
\* and no writer.
C19_ShutdownFlushesThenCloses ==
  [][ /\ (ing.pc = "closing" /\ ing'.pc = "close") =>
           LET d == ing.d
               w == states[d].writer IN
           /\ states'[d].batch = << >>
           /\ states'[d].writer = 0
           /\ w # 0 => (handles[w].open /\ ~handles'[w].open)
           /\ flushLog' # flushLog =>
                 /\ flushLog'[Len(flushLog')].items = ing.items
                 /\ flushLog'[Len(flushLog')].h = w
      /\ prodState' = "dead" =>
           \A d \in Range(files') :
              states'[d].batch = << >> /\ states'[d].writer = 0 ]_vars

\* shutdown has completed for two destinations, with messages written
C19_Witness ==
  /\ prodState = "dead"
  /\ Cardinality(Range(files)) = 2
  /\ \E k \in 1..Len(flushLog) : flushLog[k].ok

\* the name a stream is known by: "ALL" for the wildcard stream id
OwnName(s) == IF s = "*" THEN "ALL" ELSE s

\* the path carries the name of the stream of message m, no placeholder
OwnPath(base, m) ==
  /\ \E i \in 1..Len(base) : base[i] = OwnName(msgStream[m])
  /\ \A i \in 1..Len(base) : base[i] # "*"

\* C20: with a wildcard path, streams of different names have different
\* states and files, and a message is appended only to the batch of, and
\* written only to a file of, the destination named after its own stream.
C20_WildcardStreamsStayApart ==
  cfg.wildcardPath =>
    /\ \A s, u \in DOMAIN filesByStream :
          OwnName(s) # OwnName(u) => filesByStream[s] # filesByStream[u]
    /\ \A i \in 1..Len(appendLog) :
          \E base \in DOMAIN files :
             /\ files[base] = appendLog[i][2]
             /\ OwnPath(base, appendLog[i][1])
    /\ \A k \in 1..Len(flushLog) : \A i \in 1..Len(flushLog[k].items) :
          OwnPath(handles[flushLog[k].h].name.base, flushLog[k].items[i])
    /\ \A d \in 1..Len(states) : \A i \in 1..Len(states[d].batch) :
          \E base \in DOMAIN files :
             files[base] = d /\ OwnPath(base, states[d].batch[i])

\* messages of two streams have been written, each to the file of its stream
C20_Witness ==
  /\ cfg.wildcardPath
  /\ \E k1, k2 \in 1..Len(flushLog) :
        /\ flushLog[k1].ok /\ flushLog[k2].ok
        /\ handles[flushLog[k1].h].name.base
             # handles[flushLog[k2].h].name.base

\* the file is among the files of the directory d
In(d, f) == \E i \in 1..Len(d) : d[i] = f

\* C13: when compressAndCloseLog returns for a rotated file (no pruner
\* touching the directory), exactly one of the source and its .gz exists:
\* the .gz if the copy went through, the source if not.
C13_ExactlyOneOfSourceAndGz ==
  [][ \A k \in 1..Len(closers) :
        ( /\ cfg.compress /\ cfg.pruneCount = 0
          /\ closers[k].pc # "done" /\ closers'[k].pc = "done" )
        => LET src == SourceFileName(closers[k].name)
               gz == TargetFileName(closers[k].name) IN
           /\ In(dir', gz) # In(dir', src)
           /\ In(dir', gz) <=> closers[k].err = "EOF" ]_vars

\* C14: when the copy has failed with an error other than io.EOF and the
\* partial .gz has been removed, compressAndCloseLog returns an error (the
\* error of the copy).
C14_FailedCopyReturnsTheError ==
  [][ \A k \in 1..Len(closers) :
        ( /\ closers[k].pc = "cleanup" /\ closers[k].err = "err"
          /\ closers'[k].pc = "done"
          /\ ~In(dir', TargetFileName(closers[k].name)) )
        => closers'[k].ret = "err" ]_vars

\* C15: with Prune/Count = c > 0, once the Close and Prune goroutines of all
\* rotations have ended, at most c + 1 files of the destination exist.
C15_PrunedToCountPlusOne ==
  ( /\ cfg.pruneCount > 0 /\ rolls > 0
    /\ \A k \in 1..Len(closers) : closers[k].pc = "done"
    /\ \A p \in 1..Len(pruners) : pruners[p].pc = "done" )
  => Len(dir) <= cfg.pruneCount + 1

\* C21: every message held in a batch is a clone that writeMessage made,
\* never the object upstream handed in, so what is buffered keeps the
\* payload it had when it was appended whatever upstream does afterwards.
C21_BatchHoldsClones ==
  \A i \in 1..Len(heap.batch) :
     /\ heap.objects[heap.batch[i].obj].clone
     /\ heap.objects[heap.batch[i].obj].data = heap.batch[i].data

\* the value has the form HH:MM: two numbers, an hour and a minute
IsHourMinute(value) ==
  LET parts == Split(value) IN
  /\ Len(parts) = 2
  /\ ParseInt(parts[1])[2] = "nil" /\ ParseInt(parts[1])[1] \in 0..23
  /\ ParseInt(parts[2])[2] = "nil" /\ ParseInt(parts[2])[1] \in 0..59

\* C22: when Configure has read a non-empty Rotation/At that is not of the
\* form HH:MM, the outcome is a configuration error: no panic, and the
\* producer is not started with the value as its rotation time.
C22_MalformedRotateAtIsAnError ==
  ( /\ rotateAt # << >>
    /\ rotateAt.pc = "done"
    /\ rotateAt.value # << >>
    /\ ~IsHourMinute(rotateAt.value) )
  => rotateAt.read.outcome = "error"

RECURSIVE SumOfCalls(_)
\* what the Add and Sub calls of the callers 1..c on the existing metric
\* add up to
SumOfCalls(c) ==
  IF c = 0 THEN 0
  ELSE LET q == store.callers[c] IN
       SumOfCalls(c - 1)
         + (IF q.name # ExistingMetric THEN 0
            ELSE IF q.op = "Add" THEN q.value
            ELSE IF q.op = "Sub" THEN -q.value ELSE 0)

\* every caller has returned, and none has called Set on the metric
OnlyAddAndSub ==
  /\ store # << >>
  /\ \A c \in 1..MaxCallers :
        /\ store.callers[c].pc \in {"done", "panic"}
        /\ ~(store.callers[c].op = "Set"
             /\ store.callers[c].name = ExistingMetric)

\* C23: when concurrent Add and Sub calls on an existing metric have all
\* returned, in whatever order their steps were taken, the metric holds
\* its initial value plus everything added minus everything subtracted
\* (in int64 arithmetic), and a Get of a name that was never created has
\* returned 0 and an error.
C23_NoUpdateIsLost ==
  /\ OnlyAddAndSub =>
       store.cells[ExistingMetric] = Wrap(store.initial + SumOfCalls(MaxCallers))
  /\ store # << >> =>
       \A c \in 1..MaxCallers :
          LET q == store.callers[c] IN
          (q.op = "Get" /\ q.name # ExistingMetric /\ q.pc # "idle")
            => (q.pc = "done" /\ q.ret = << 0, "err" >>)

\* an Add and a Sub on the metric have interleaved with each other and
\* returned, and a Get of the other name has returned
C23_Witness ==
  /\ OnlyAddAndSub
  /\ \E a, b, g \in 1..MaxCallers :
        /\ store.callers[a].op = "Add" /\ store.callers[a].name = ExistingMetric
        /\ store.callers[b].op = "Sub" /\ store.callers[b].name = ExistingMetric
        /\ store.callers[a].value # store.callers[b].value
        /\ store.callers[g].op = "Get" /\ store.callers[g].name # ExistingMetric

\* C24: rotateLog sets out to visit every stream id that filesByStream maps
\* when it is called, calls getFileState with forceRotate for one of the
\* remaining ids at a time, goes on with the others whatever getFileState
\* returned, and ends only when none remains.
C24_RotateLogVisitsEveryStream ==
  [][ /\ (ing.pc = "idle" /\ ing'.op = "rotate")
         => ing'.todo = DOMAIN filesByStream
      /\ (ing.op = "rotate" /\ ing.pc = "roll" /\ ing'.pc = "gfs")
         => /\ ing'.s \in ing.todo /\ ing'.force
            /\ ing'.todo = ing.todo \ {ing'.s}
      /\ (ing.op = "rotate" /\ ing.pc = "roll" /\ ing'.pc = "idle")
         => ing.todo = {}
      /\ (ing.op = "rotate" /\ ing.pc \in {"gfs", "open"})
         => (ing'.op = "rotate" /\ ing'.force /\ ing'.todo = ing.todo)
      /\ (ing.op = "rotate" /\ ing.pc = "ret" /\ ing' # ing)
         => (ing'.op = "rotate" /\ ing'.pc = "roll"
             /\ ing'.todo = ing.todo) ]_vars

\* getFileState has returned an error to rotateLog while another stream id
\* is still to be visited
C24_Witness ==
  /\ ing.op = "rotate" /\ ing.pc = "ret"
  /\ ing.res # "ok"
  /\ ing.todo # {}

\* C28: within one rotateLog a destination is rotated at most once: a step
\* of the loop that opens a new file for the destination, or hands its
\* writer to a closing goroutine, is the first such step of the call: no
\* stream id of the destination has been visited before.
C28_OneRotationPerRotateLog ==
  [][ ( /\ ing.pc = "roll"
        /\ (current' # current \/ Len(closers') > Len(closers)) )
      => \A s \in DOMAIN filesByStream \ ing.todo :
            filesByStream[s] # filesByStream[CHOOSE t \in ing.todo :
                                               t \notin ing'.todo] ]_vars

\* C26: whenever a flush has drained messages and is about to write them,
\* be it the flush of a full batch, of a tick or of the shutdown, every
\* writer reference it can read from its destination is a writer, not none.
C26_FlushFindsAWriter ==
  /\ (tick.pc = "flush" /\ tick.items # << >>)
       => 0 \notin FlushWriters(tick.d, tick.cap)
  /\ (ing.pc = "flush" /\ ing.items # << >>)
       => 0 \notin FlushWriters(ing.d, ing.cap)
  /\ (ing.pc = "closing" /\ ing.items # << >>)
       => states[ing.d].writer # 0

\* C29: when compressAndCloseLog removes the source file, the compressed
\* file has been written in full: the copy reached the end of the source
\* and the gzip writer and the target file were closed without error.
C29_SourceRemovedOnlyAfterFullGz ==
  [][ \A k \in 1..Len(closers) :
        ( /\ closers[k].pc = "cleanup" /\ closers'[k].pc = "done"
          /\ In(dir, SourceFileName(closers[k].name))
          /\ ~In(dir', SourceFileName(closers[k].name)) )
        => closers'[k].written ]_vars

\* the distance between two positions
Distance(a, b) == IF a >= b THEN a - b ELSE b - a

\* C30: a Seek comes to its end within as many turns of its loops as the
\* position moves; having returned, it has answered the position asked for
\* and set buf.position to it when that position is not negative, and has
\* answered an error and left buf.position alone when it is negative.
C30_SeekEndsAtThePosition ==
  buf # << >> =>
    LET position == SeekPosition(buf.whence, buf.offset, buf.before, buf.end)
    IN
    /\ buf.pc # "idle" => buf.turns <= Distance(position, buf.before)
    /\ buf.pc = "done" =>
         IF position >= 0
         THEN buf.ret = << position, "nil" >> /\ buf.position = position
         ELSE buf.ret[2] = "err" /\ buf.position = buf.before

\* C27: the file of the current writer of the destination stays in the
\* directory for as long as it is the current one: no step of a Prune
\* goroutine, whatever the goroutines of compression and later rotations
\* have done in between, removes it.
C27_PruneSparesTheOpenFile ==
  [][ ( /\ current # << >> /\ current' = current
        /\ In(dir, SourceFileName(current[1])) )
      => In(dir', SourceFileName(current[1])) ]_vars

\* the files the policy is to remove from the listing, by index: those
\* before the prune date, or the oldest beyond the count
SweepCandidates ==
  IF sweep.policy.name = "pruneByHour"
  THEN { i \in DOMAIN sweep.listed : sweep.listed[i].old }
  ELSE { i \in DOMAIN sweep.listed :
           i <= Len(sweep.listed) - sweep.policy.arg }

\* C25: when a sweep over a listing has ended, os.Remove has been tried on
\* every file the policy was to remove, failed removals or not; and
\* pruneToSize has kept in its total exactly the files that are still
\* there, and has ended with that total within the setting or with
\* os.Remove tried on every file of the listing.
C25_FailedRemoveDoesNotStopTheSweep ==
  (sweep # << >> /\ sweep.pc = "done" /\ sweep.listOk) =>
    IF sweep.policy.name # "pruneToSize"
    THEN sweep.attempted = SweepCandidates
    ELSE /\ sweep.totalSize
              = SizeOf(sweep.listed, DOMAIN sweep.listed \ sweep.removed)
         /\ \/ sweep.totalSize <= sweep.policy.arg
            \/ sweep.attempted = DOMAIN sweep.listed

\* a sweep has ended in which a removal failed and a later one succeeded
C25_Witness ==
  /\ sweep # << >> /\ sweep.pc = "done"
  /\ \E i \in sweep.attempted \ sweep.removed :
        \E j \in sweep.removed : j > i

====
